---- MODULE Spec2Model ----
(***************************************************************************)
(* Model of skydb/pq/builder.go: the predicate-to-SQL compiler of the pq   *)
(* backend.  One predicateSqlizerFactory (a compiler session) accumulates  *)
(* joined tables and extra columns while predicates are turned into        *)
(* sqlizers; the sqlizers are rendered by their ToSql methods.             *)
(*                                                                         *)
(* Text is a sequence of chunks (strings).  The characters the code treats *)
(* specially (the double quote, the backslash, the HTML and control         *)
(* characters, NUL, U+2028/U+2029, the `?` placeholder)                    *)
(* are always chunks of their own, so quoting and escaping are computed    *)
(* chunk by chunk; the Go string is the concatenation of the chunks.       *)
(***************************************************************************)
EXTENDS Integers, Sequences, FiniteSets, TLC

VARIABLES
    db,            \* f.db: [id, userRecordType]              (builder.go:16)
    primaryTable,  \* f.primaryTable                          (builder.go:17)
    joinedTables,  \* f.joinedTables                          (builder.go:18)
    extraColumns,  \* f.extraColumns, nil = empty map         (builder.go:19)
    issued,        \* history: every createLeftJoin call, <<spec, alias>>
    sqlizer,       \* the sqlizer the last factory call returned, if any
    call,          \* history: the last operation and its input
    result,        \* what the last operation returned
    nops,          \* number of factory operations performed on the session
    shortEscapes   \* the build's encoding/json writes \b and \f (Go 1.22 and
                   \* later) rather than \u0008 and \u000c

vars == <<db, primaryTable, joinedTables, extraColumns, issued, sqlizer,
          call, result, nops, shortEscapes>>

(***************************************************************************)
(* Bounds                                                                  *)
(***************************************************************************)
MaxOps == 2        \* factory operations in one session
MaxArrayLen == 2   \* elements of an array literal
MaxChildren == 2   \* children of an And / Or predicate

(***************************************************************************)
(* Text helpers                                                            *)
(***************************************************************************)
DQ  == "\""
BS  == "\\"
NUL == "<NUL>"
LF  == "\n"
CR  == "\r"
TAB == "\t"
FF  == "\f"
LS  == "<U+2028>"
PS  == "<U+2029>"
BadUTF8 == "<invalid UTF-8>"
QM  == "?"

RECURSIVE Flatten(_)
\* the Go string a chunk sequence stands for
Flatten(t) == IF t = <<>> THEN "" ELSE Head(t) \o Flatten(Tail(t))

RECURSIVE ConcatAll(_)
ConcatAll(ts) == IF ts = <<>> THEN <<>> ELSE Head(ts) \o ConcatAll(Tail(ts))

RECURSIVE JoinWith(_, _)
\* strings.Join(parts, sep)
JoinWith(parts, sep) ==
    IF parts = <<>> THEN <<>>
    ELSE IF Len(parts) = 1 THEN parts[1]
    ELSE parts[1] \o <<sep>> \o JoinWith(Tail(parts), sep)

CountPlaceholders(t) == Cardinality({i \in 1..Len(t) : t[i] = QM})

RECURSIVE TruncateAtNUL(_)
TruncateAtNUL(name) ==
    IF name = <<>> \/ Head(name) = NUL THEN <<>>
    ELSE <<Head(name)>> \o TruncateAtNUL(Tail(name))

\* pq.QuoteIdentifier: cut at the first NUL, double every quote, wrap in quotes
QuoteIdentifier(name) ==
    LET cut == TruncateAtNUL(name)
    IN  <<DQ>> \o ConcatAll([i \in 1..Len(cut) |->
                    IF cut[i] = DQ THEN <<DQ, DQ>> ELSE <<cut[i]>>]) \o <<DQ>>

fullQuoteIdentifier(aliasName, columnName) ==
    QuoteIdentifier(aliasName) \o <<".">> \o QuoteIdentifier(columnName)

HexDigits == <<"0", "1", "2", "3", "4", "5", "6", "7", "8", "9",
               "a", "b", "c", "d", "e", "f">>
\* the two hex digits of a byte, as encoding/json writes them
Hex(n) == HexDigits[(n \div 16) + 1] \o HexDigits[(n % 16) + 1]

\* the bytes below 0x20 other than NUL, tab, newline and carriage return
ControlCodes == (1..31) \ {9, 10, 13}
\* the chunk standing for a control character: the form feed is itself, the
\* others are written <U+00XX>
ControlChunk(n) == IF n = 12 THEN FF ELSE "<U+00" \o Hex(n) \o ">"

\* json.Marshal escaping the quote and the backslash alone
jsonMarshal_QuotesOnly(short, s) ==
    <<DQ>> \o ConcatAll([i \in 1..Len(s) |->
                    CASE s[i] = DQ -> <<BS, DQ>>
                      [] s[i] = BS -> <<BS, BS>>
                      [] OTHER -> <<s[i]>>]) \o <<DQ>>

\* the backspace
BSP == ControlChunk(8)

\* json.Marshal of a string: quotes and backslashes are escaped, and so are
\* the HTML characters, the control characters (newline, carriage return and
\* tab by their short escapes, every other byte below 0x20 as \u00XX),
\* U+2028 / U+2029, and invalid UTF-8 (replaced by U+FFFD).  The backspace
\* and the form feed are written \b and \f by the encoding/json of Go 1.22
\* and later and \u0008 and \u000c by the earlier ones; the source fixes no
\* toolchain, so the build decides (short).
jsonMarshal(short, s) ==
    <<DQ>> \o ConcatAll([i \in 1..Len(s) |->
                    CASE s[i] = DQ -> <<BS, DQ>>
                      [] s[i] = BS -> <<BS, BS>>
                      [] s[i] = "<" -> <<BS, "u003c">>
                      [] s[i] = ">" -> <<BS, "u003e">>
                      [] s[i] = "&" -> <<BS, "u0026">>
                      [] s[i] = LF -> <<BS, "n">>
                      [] s[i] = CR -> <<BS, "r">>
                      [] s[i] = TAB -> <<BS, "t">>
                      [] s[i] = NUL -> <<BS, "u0000">>
                      [] s[i] = BSP ->
                            IF short THEN <<BS, "b">> ELSE <<BS, "u0008">>
                      [] s[i] = FF ->
                            IF short THEN <<BS, "f">> ELSE <<BS, "u000c">>
                      [] s[i] = LS -> <<BS, "u2028">>
                      [] s[i] = PS -> <<BS, "u2029">>
                      [] s[i] = BadUTF8 -> <<BS, "ufffd">>
                      [] \E n \in ControlCodes : s[i] = ControlChunk(n) ->
                            <<BS, "u00" \o Hex(CHOOSE n \in ControlCodes :
                                                    s[i] = ControlChunk(n))>>
                      [] OTHER -> <<s[i]>>]) \o <<DQ>>

RECURSIVE Placeholders(_)
\* sq.Placeholders(n): "?,?,...,?"
Placeholders(n) ==
    IF n < 1 THEN <<>>
    ELSE IF n = 1 THEN <<QM>>
    ELSE <<QM, ",">> \o Placeholders(n - 1)

(***************************************************************************)
(* Join/alias manager                                                      *)
(***************************************************************************)
UserTable == <<"_user">>

joinedTable(secondaryTable, primaryColumn, secondaryColumn) ==
    [secondaryTable |-> secondaryTable, primaryColumn |-> primaryColumn,
     secondaryColumn |-> secondaryColumn]

equal(a, b) ==
    /\ a.secondaryTable = b.secondaryTable
    /\ a.primaryColumn = b.primaryColumn
    /\ a.secondaryColumn = b.secondaryColumn

\* indexInJoinedTables is the 0-based Go index
aliasName(secondaryTable, indexInJoinedTables) ==
    IF secondaryTable = UserTable THEN UserTable
    ELSE <<"_t" \o ToString(indexInJoinedTables)>>

\* The factory state threaded through the factory methods.
Factory(jt, ec, iss) == [joinedTables |-> jt, extraColumns |-> ec, issued |-> iss]

\* createLeftJoin with the alias of a found entry taken from the end of the list
createLeftJoin_LastIndex(f, secondaryTable, primaryColumn, secondaryColumn) ==
    LET newAlias == joinedTable(secondaryTable, primaryColumn, secondaryColumn)
        found == {i \in 1..Len(f.joinedTables) : equal(f.joinedTables[i], newAlias)}
        appended == Append(f.joinedTables, newAlias)
        alias == IF found # {} THEN aliasName(secondaryTable, Len(f.joinedTables) - 1)
                 ELSE aliasName(secondaryTable, Len(appended) - 1)
    IN  [f |-> [f EXCEPT !.joinedTables = IF found # {} THEN @ ELSE appended,
                         !.issued = Append(@, <<newAlias, alias>>)],
         alias |-> alias]

\* createLeftJoin without the scan for an equal entry
createLeftJoin_NoDedup(f, secondaryTable, primaryColumn, secondaryColumn) ==
    LET newAlias == joinedTable(secondaryTable, primaryColumn, secondaryColumn)
        appended == Append(f.joinedTables, newAlias)
        alias == aliasName(secondaryTable, Len(appended) - 1)
    IN  [f |-> [f EXCEPT !.joinedTables = appended,
                         !.issued = Append(@, <<newAlias, alias>>)],
         alias |-> alias]

\* createLeftJoin: returns [f |-> factory after the call, alias |-> the alias]
createLeftJoin(f, secondaryTable, primaryColumn, secondaryColumn) ==
    LET newAlias == joinedTable(secondaryTable, primaryColumn, secondaryColumn)
        found == {i \in 1..Len(f.joinedTables) : equal(f.joinedTables[i], newAlias)}
        first == CHOOSE i \in found : \A j \in found : i <= j
        appended == Append(f.joinedTables, newAlias)
        alias == IF found # {} THEN aliasName(secondaryTable, first - 1)
                 ELSE aliasName(secondaryTable, Len(appended) - 1)
    IN  [f |-> [f EXCEPT !.joinedTables = IF found # {} THEN @ ELSE appended,
                         !.issued = Append(@, <<newAlias, alias>>)],
         alias |-> alias]

\* db.tableName: the table as it is named in the join clause
tableName(table) == table

\* addJoinsToSelectBuilder numbering the aliases from 1
addJoinsToSelectBuilder_OneBased(f, primary) ==
    [joins |-> [i \in 1..Len(f.joinedTables) |->
                  LET alias == f.joinedTables[i]
                      name == aliasName(alias.secondaryTable, i)
                  IN  <<"LEFT JOIN ">> \o tableName(alias.secondaryTable)
                        \o <<" AS ">> \o QuoteIdentifier(name) \o <<" ON ">>
                        \o fullQuoteIdentifier(primary, alias.primaryColumn)
                        \o <<" = ">>
                        \o fullQuoteIdentifier(name, alias.secondaryColumn)],
     distinct |-> Len(f.joinedTables) > 0]

\* addJoinsToSelectBuilder: the LEFT JOIN clauses and the DISTINCT flag
addJoinsToSelectBuilder(f, primary) ==
    [joins |-> [i \in 1..Len(f.joinedTables) |->
                  LET alias == f.joinedTables[i]
                      name == aliasName(alias.secondaryTable, i - 1)
                  IN  <<"LEFT JOIN ">> \o tableName(alias.secondaryTable)
                        \o <<" AS ">> \o QuoteIdentifier(name) \o <<" ON ">>
                        \o fullQuoteIdentifier(primary, alias.primaryColumn)
                        \o <<" = ">>
                        \o fullQuoteIdentifier(name, alias.secondaryColumn)],
     distinct |-> Len(f.joinedTables) > 0]

(***************************************************************************)
(* skydb values: predicates, expressions, functions                        *)
(***************************************************************************)
NoError == "nil"

Predicate(op, children) == [Operator |-> op, Children |-> children]
Expression(type, value) == [Type |-> type, Value |-> value]

\* bound values: a Go string, a number, a skydb.Reference
StrVal(name)  == [kind |-> "str", v |-> name]
IntVal(n)     == [kind |-> "int", v |-> n]
Reference(key) == [kind |-> "ref", key |-> key]
ArrayVal(items) == [kind |-> "array", items |-> items]

DistanceFunc(field, lng, lat) ==
    [fn |-> "DistanceFunc", Field |-> field, Lng |-> lng, Lat |-> lat]
CountFunc(overall) == [fn |-> "CountFunc", OverallRecords |-> overall]
UserDataFunc(dataName) == [fn |-> "UserDataFunc", DataName |-> dataName]
UserRelationFunc(name, direction, keyPath, user) ==
    [fn |-> "UserRelationFunc", RelationName |-> name,
     RelationDirection |-> direction, KeyPath |-> keyPath, User |-> user]
UserDiscoverFunc(emails) == [fn |-> "UserDiscoverFunc", Emails |-> emails]

CompoundOperators == {"And", "Or", "Not"}
ComparisonOperators ==
    {"Equal", "GreaterThan", "LessThan", "GreaterThanOrEqual",
     "LessThanOrEqual", "NotEqual", "Like", "ILike"}

IsCompound(op) == op \in CompoundOperators
IsBinary(op) == op \in ComparisonOperators \cup {"In"}
IsEmpty(p) == p.Operator = "" \/ p.Children = <<>>
IsPredicate(c) == "Operator" \in DOMAIN c
IsExpression(c) == "Type" \in DOMAIN c

\* UserDiscoverFunc.ArgsByName("email"): the e-mail addresses as []interface{}
ArgsByName(fn, name) == ArrayVal([i \in 1..Len(fn.Emails) |-> StrVal(fn.Emails[i])])

(***************************************************************************)
(* Expression / literal compiler                                           *)
(***************************************************************************)
Sql(sql, args, err) == [sql |-> sql, args |-> args, err |-> err]
Panic(msg) == Sql(<<>>, <<>>, "panic: " \o msg)
IsPanic(err) == err \in {"panic: " \o m : m \in
    {"unexpected value in sqlizer", "malformed query",
     "got unrecgonized skydb.Func", "interface conversion"}}

literalToSQLValue(value) ==
    IF value.kind = "ref" THEN StrVal(value.key) ELSE value

literalToSQLOperand(literal) ==
    IF literal.kind = "array"
    THEN IF Len(literal.items) > 0
         THEN Sql(<<"(">> \o Placeholders(Len(literal.items)) \o <<")">>,
                  [i \in 1..Len(literal.items) |-> literalToSQLValue(literal.items[i])],
                  NoError)
         ELSE Sql(<<"(NULL)">>, <<>>, NoError)
    ELSE Sql(Placeholders(1), <<literalToSQLValue(literal)>>, NoError)

funcToSQLOperand(alias, fun) ==
    CASE fun.fn = "DistanceFunc" ->
            Sql(<<"ST_Distance_Sphere(">> \o fullQuoteIdentifier(alias, fun.Field)
                    \o <<", ST_MakePoint(", QM, ", ", QM, "))">>,
                <<IntVal(fun.Lng), IntVal(fun.Lat)>>, NoError)
      [] fun.fn = "CountFunc" ->
            Sql(IF fun.OverallRecords THEN <<"COUNT(*) OVER()">> ELSE <<"COUNT(*)">>,
                <<>>, NoError)
      [] fun.fn = "UserDataFunc" ->
            Sql(<<"_user.">> \o fun.DataName, <<>>, NoError)
      [] OTHER -> Panic("got unrecgonized skydb.Func")

\* expressionSqlizer.ToSql
exprToSql(alias, expr) ==
    CASE expr.Type = "KeyPath" ->
            Sql(fullQuoteIdentifier(alias, expr.Value), <<>>, NoError)
      [] expr.Type = "Function" -> funcToSQLOperand(alias, expr.Value)
      [] OTHER -> literalToSQLOperand(expr.Value)

(***************************************************************************)
(* Sqlizers and their ToSql methods                                        *)
(***************************************************************************)
NilSqlizer == [kind |-> "nil"]

\* containsComparisonPredicateSqlizer.ToSql
containsToSql(p) ==
    IF Len(p.predicate.Children) < 2
          \/ \E i \in 1..2 : ~IsExpression(p.predicate.Children[i])
    THEN Panic("interface conversion")
    ELSE
    LET lhs == p.predicate.Children[1]
        rhs == p.predicate.Children[2]
        l == exprToSql(p.alias, lhs)
        r == exprToSql(p.alias, rhs)
    IN  IF lhs.Type = "Literal" /\ rhs.Type = "KeyPath"
        THEN Sql(<<"jsonb_exists(">> \o r.sql \o <<", ">> \o l.sql \o <<")">>,
                 r.args \o l.args, NoError)
        ELSE IF lhs.Type = "KeyPath" /\ rhs.Type = "Literal"
        THEN Sql(l.sql \o <<" IN ">> \o r.sql, l.args \o r.args, NoError)
        ELSE Panic("malformed query")

OperatorText(op) ==
    CASE op = "Equal" -> "="
      [] op = "GreaterThan" -> ">"
      [] op = "LessThan" -> "<"
      [] op = "GreaterThanOrEqual" -> ">="
      [] op = "LessThanOrEqual" -> "<="
      [] op = "NotEqual" -> "<>"
      [] op = "Like" -> " LIKE "
      [] op = "ILike" -> " ILIKE "

\* comparisonPredicateSqlizer.ToSql
comparisonToSql(p) ==
    IF ~IsBinary(p.predicate.Operator)
    THEN Sql(<<>>, <<>>, "Comparison operator is not supported.")
    ELSE IF Len(p.predicate.Children) < 2
          \/ \E i \in 1..2 : ~IsExpression(p.predicate.Children[i])
    THEN Panic("interface conversion")
    ELSE
    LET l == exprToSql(p.alias, p.predicate.Children[1])
        r == exprToSql(p.alias, p.predicate.Children[2])
    IN  IF IsPanic(l.err) THEN l
        ELSE IF p.predicate.Operator \notin ComparisonOperators
        THEN Sql(<<>>, l.args, "Comparison operator is not supported.")
        ELSE IF IsPanic(r.err) THEN r
        ELSE Sql(l.sql \o <<OperatorText(p.predicate.Operator)>> \o r.sql,
                 l.args \o r.args, NoError)

\* userRelationPredicateSqlizer.ToSql
userRelationToSql(p) ==
    IF p.outwardAlias # <<>> /\ p.inwardAlias # <<>>
    THEN Sql(fullQuoteIdentifier(p.outwardAlias, <<"left_id">>) \o <<" = ">>
                \o fullQuoteIdentifier(p.inwardAlias, <<"right_id">>) \o <<" AND ">>
                \o fullQuoteIdentifier(p.outwardAlias, <<"left_id">>) \o <<" = ", QM>>,
             <<StrVal(p.user)>>, NoError)
    ELSE IF p.outwardAlias # <<>>
    THEN Sql(fullQuoteIdentifier(p.outwardAlias, <<"left_id">>) \o <<" = ", QM>>,
             <<StrVal(p.user)>>, NoError)
    ELSE IF p.inwardAlias # <<>>
    THEN Sql(fullQuoteIdentifier(p.inwardAlias, <<"right_id">>) \o <<" = ", QM>>,
             <<StrVal(p.user)>>, NoError)
    ELSE Panic("unexpected value in sqlizer")

\* accessPredicateSqlizer.ToSql
accessToSql(p) ==
    LET sql == IF p.databaseID = <<>> THEN <<>> ELSE <<>>  \* lines 243-245
    IN
    IF p.user.ID # <<>>
    THEN Sql(<<"(">>
               \o ConcatAll([i \in 1..Len(p.user.Roles) |->
                     <<"_access @> '[{", DQ, "role", DQ, ":">>
                        \o jsonMarshal(shortEscapes, p.user.Roles[i]) \o <<"}]' OR ">>])
               \o <<"_access @> '[{", DQ, "user_id", DQ, ":">>
               \o jsonMarshal(shortEscapes, p.user.ID)
               \o <<"}]' OR _access IS NULL OR _owner_id = ", QM, ")">>,
             <<StrVal(p.user.ID)>>, NoError)
    ELSE Sql(sql, <<>>, NoError)

RECURSIVE ToSql(_)
RECURSIVE conjJoin(_, _, _, _)
\* squirrel's conj.join: the parts in order, empty parts dropped, the first
\* error returned
conjJoin(parts, sep, sqlParts, args) ==
    IF parts = <<>>
    THEN Sql(IF Len(sqlParts) > 0
             THEN <<"(">> \o JoinWith(sqlParts, sep) \o <<")">> ELSE <<>>,
             args, NoError)
    ELSE LET part == ToSql(Head(parts))
         IN  IF part.err # NoError THEN Sql(<<>>, <<>>, part.err)
             ELSE IF part.sql # <<>>
             THEN conjJoin(Tail(parts), sep, Append(sqlParts, part.sql), args \o part.args)
             ELSE conjJoin(Tail(parts), sep, sqlParts, args)

\* NotSqlizer.ToSql
notToSql(s) ==
    LET child == ToSql(s.Predicate)
    IN  IF IsPanic(child.err) THEN child
        ELSE IF child.err # NoError
        THEN Sql(<<"NOT (">> \o child.sql \o <<")">>, child.args, child.err)
        ELSE child

ToSql(s) ==
    CASE s.kind = "And" -> conjJoin(s.parts, " AND ", <<>>, <<>>)
      [] s.kind = "Or" -> conjJoin(s.parts, " OR ", <<>>, <<>>)
      [] s.kind = "Not" -> notToSql(s)
      [] s.kind = "contains" -> containsToSql(s)
      [] s.kind = "comparison" -> comparisonToSql(s)
      [] s.kind = "userRelation" -> userRelationToSql(s)
      [] s.kind = "access" -> accessToSql(s)

(***************************************************************************)
(* The factory: predicates to sqlizers                                     *)
(***************************************************************************)
\* what a factory method returns: the factory after the call, the sqlizer, the error
Built(f, s, err) == [f |-> f, sqlizer |-> s, err |-> err]

\* skydb.FieldType
FieldType(type, expr) == [Type |-> type, Expression |-> expr]
NoExpression == Expression("", [fn |-> ""])

addExtraColumn(f, key, fieldType, expr) ==
    [f EXCEPT !.extraColumns =
        [k \in DOMAIN f.extraColumns \cup {key} |->
            IF k = key THEN FieldType(fieldType, expr) ELSE f.extraColumns[k]]]

updateTypemap(f, tm) ==
    [k \in DOMAIN tm \cup DOMAIN f.extraColumns |->
        IF k \in DOMAIN f.extraColumns THEN f.extraColumns[k] ELSE tm[k]]

\* the inward join keyed on right_id like the outward one
newUserRelationFunctionalPredicateSqlizer_InwardRight(f, fn) ==
    LET table == fn.RelationName
        direction == IF fn.RelationDirection = "" THEN "outward"
                     ELSE fn.RelationDirection
        primaryColumn == IF fn.KeyPath = <<"_owner">> \/ fn.KeyPath = <<>>
                         THEN <<"_owner_id">> ELSE fn.KeyPath
        out == IF direction = "outward" \/ direction = "mutual"
               THEN createLeftJoin(f, table, primaryColumn, <<"right_id">>)
               ELSE [f |-> f, alias |-> <<>>]
        in == IF direction = "inward" \/ direction = "mutual"
              THEN createLeftJoin(out.f, table, primaryColumn, <<"right_id">>)
              ELSE [f |-> out.f, alias |-> <<>>]
    IN  Built(in.f,
              [kind |-> "userRelation", outwardAlias |-> out.alias,
               inwardAlias |-> in.alias, user |-> fn.User],
              NoError)

newUserRelationFunctionalPredicateSqlizer(f, fn) ==
    LET table == fn.RelationName
        direction == IF fn.RelationDirection = "" THEN "outward"
                     ELSE fn.RelationDirection
        primaryColumn == IF fn.KeyPath = <<"_owner">> \/ fn.KeyPath = <<>>
                         THEN <<"_owner_id">> ELSE fn.KeyPath
        out == IF direction = "outward" \/ direction = "mutual"
               THEN createLeftJoin(f, table, primaryColumn, <<"right_id">>)
               ELSE [f |-> f, alias |-> <<>>]
        in == IF direction = "inward" \/ direction = "mutual"
              THEN createLeftJoin(out.f, table, primaryColumn, <<"left_id">>)
              ELSE [f |-> out.f, alias |-> <<>>]
    IN  Built(in.f,
              [kind |-> "userRelation", outwardAlias |-> out.alias,
               inwardAlias |-> in.alias, user |-> fn.User],
              NoError)

\* the user-record check made after the join and the extra columns
newUserDiscoverFunctionalPredicateSqlizer_LateCheck(f, primary, userRecordType, fn) ==
    LET join == createLeftJoin(f, UserTable, <<"_id">>, <<"id">>)
        s == [kind |-> "contains", alias |-> join.alias,
              predicate |-> Predicate("In",
                  <<Expression("KeyPath", <<"email">>),
                    Expression("Literal", ArgsByName(fn, "email"))>>)]
        f1 == addExtraColumn(join.f, <<"_transient__email">>, "string",
                  Expression("Function", UserDataFunc(<<"email">>)))
        f2 == addExtraColumn(f1, <<"_transient__username">>, "string",
                  Expression("Function", UserDataFunc(<<"username">>)))
    IN  IF userRecordType # primary
        THEN Built(f2, NilSqlizer, "user discover predicate can only be used on user record")
        ELSE Built(f2, s, NoError)

newUserDiscoverFunctionalPredicateSqlizer(f, primary, userRecordType, fn) ==
    IF userRecordType # primary
    THEN Built(f, NilSqlizer, "user discover predicate can only be used on user record")
    ELSE
    LET join == createLeftJoin(f, UserTable, <<"_id">>, <<"id">>)
        s == [kind |-> "contains", alias |-> join.alias,
              predicate |-> Predicate("In",
                  <<Expression("KeyPath", <<"email">>),
                    Expression("Literal", ArgsByName(fn, "email"))>>)]
        f1 == addExtraColumn(join.f, <<"_transient__email">>, "string",
                  Expression("Function", UserDataFunc(<<"email">>)))
        f2 == addExtraColumn(f1, <<"_transient__username">>, "string",
                  Expression("Function", UserDataFunc(<<"username">>)))
    IN  Built(f2, s, NoError)

newFunctionalPredicateSqlizer(f, primary, userRecordType, predicate) ==
    IF ~IsExpression(predicate.Children[1])
    THEN Built(f, NilSqlizer, "panic: interface conversion")
    ELSE
    LET expr == predicate.Children[1]
    IN  IF expr.Type # "Function"
        THEN Built(f, NilSqlizer, "panic: unexpected expression in functional predicate")
        ELSE IF expr.Value.fn = "UserRelationFunc"
        THEN newUserRelationFunctionalPredicateSqlizer(f, expr.Value)
        ELSE IF expr.Value.fn = "UserDiscoverFunc"
        THEN newUserDiscoverFunctionalPredicateSqlizer(f, primary, userRecordType, expr.Value)
        ELSE Built(f, NilSqlizer,
                   "panic: the specified function cannot be used as a functional predicate")

RECURSIVE newPredicateSqlizer(_, _, _, _)
RECURSIVE newChildSqlizers(_, _, _, _, _)
\* the loop of the And and Or cases: the children left to right, stopping at
\* the first error
newChildSqlizers(f, primary, userRecordType, children, acc) ==
    IF children = <<>> THEN Built(f, acc, NoError)
    ELSE IF ~IsPredicate(Head(children))
    THEN Built(f, NilSqlizer, "panic: interface conversion")
    ELSE LET b == newPredicateSqlizer(f, primary, userRecordType, Head(children))
         IN  IF b.err # NoError THEN Built(b.f, NilSqlizer, b.err)
             ELSE newChildSqlizers(b.f, primary, userRecordType, Tail(children),
                                   Append(acc, b.sqlizer))

newCompoundPredicateSqlizer(f, primary, userRecordType, p) ==
    CASE p.Operator \in {"And", "Or"} ->
            LET b == newChildSqlizers(f, primary, userRecordType, p.Children, <<>>)
            IN  IF b.err # NoError THEN b
                ELSE Built(b.f, [kind |-> p.Operator, parts |-> b.sqlizer], NoError)
      [] p.Operator = "Not" ->
            IF ~IsPredicate(p.Children[1])
            THEN Built(f, NilSqlizer, "panic: interface conversion")
            ELSE LET b == newPredicateSqlizer(f, primary, userRecordType, p.Children[1])
                 IN  IF b.err # NoError THEN Built(b.f, NilSqlizer, b.err)
                     ELSE Built(b.f, [kind |-> "Not", Predicate |-> b.sqlizer], NoError)
      [] OTHER -> Built(f, NilSqlizer, "Compound operator is not supported.")

newPredicateSqlizer(f, primary, userRecordType, predicate) ==
    IF IsEmpty(predicate)
    THEN Built(f, NilSqlizer, "panic: no sqlizer can be created from an empty predicate")
    ELSE IF predicate.Operator = "Functional"
    THEN newFunctionalPredicateSqlizer(f, primary, userRecordType, predicate)
    ELSE IF IsCompound(predicate.Operator)
    THEN newCompoundPredicateSqlizer(f, primary, userRecordType, predicate)
    ELSE IF predicate.Operator = "In"
    THEN Built(f, [kind |-> "contains", alias |-> primary, predicate |-> predicate], NoError)
    ELSE Built(f, [kind |-> "comparison", alias |-> primary, predicate |-> predicate], NoError)

newAccessControlSqlizer(databaseID, user, aclLevel) ==
    [kind |-> "access", databaseID |-> databaseID, user |-> user, level |-> aclLevel]

(***************************************************************************)
(* Inputs                                                                  *)
(***************************************************************************)
UserRecordType == <<"user">>
PrimaryTables == {<<"user">>, <<"note">>}
DatabaseIDs == {<<>>, <<"_public">>}

KeyPathExprs == {Expression("KeyPath", k) :
                    k \in {<<"title">>, <<"a", DQ, "b">>, <<"a", QM, "b">>}}
Scalars == {IntVal(1), StrVal(<<"x">>), Reference(<<"note/1">>)}
Arrays == UNION {[1..n -> Scalars] : n \in 0..MaxArrayLen}
LiteralExprs == {Expression("Literal", v) : v \in Scalars}
                  \cup {Expression("Literal", ArrayVal(a)) : a \in Arrays}
FunctionExprs == {Expression("Function", fn) : fn \in
                    {DistanceFunc(<<"loc">>, 1, 2), CountFunc(TRUE),
                     CountFunc(FALSE), UserDataFunc(<<"email">>)}}
Exprs == KeyPathExprs \cup LiteralExprs \cup FunctionExprs

Comparisons == {Predicate(op, <<l, r>>) :
                    op \in ComparisonOperators, l \in Exprs, r \in Exprs}
Ins == {Predicate("In", <<l, r>>) : l \in KeyPathExprs, r \in LiteralExprs}
          \cup {Predicate("In", <<l, r>>) : l \in LiteralExprs, r \in KeyPathExprs}

Relation(name, direction, keyPath) ==
    Predicate("Functional",
        <<Expression("Function", UserRelationFunc(name, direction, keyPath, <<"bob">>))>>)
Discover(emails) ==
    Predicate("Functional", <<Expression("Function", UserDiscoverFunc(emails))>>)

Directions == {"", "outward", "inward", "mutual"}
Relations == {Relation(n, d, k) : n \in {<<"follow">>, UserTable}, d \in Directions,
                                  k \in {<<>>, <<"_owner">>, <<"_id">>}}
Discovers == {Discover(e) : e \in {<<>>, <<<<"a@x">>, <<"b@x">>>>}}
Functionals == Relations \cup Discovers

\* the leaves compound predicates are built from
CoreLeaves ==
    {Predicate("Equal", <<Expression("KeyPath", <<"title">>),
                          Expression("Literal", StrVal(<<"x">>))>>),
     Predicate("In", <<Expression("KeyPath", <<"title">>),
                       Expression("Literal", ArrayVal(<<>>))>>),
     Predicate("LessThan", <<Expression("Function", DistanceFunc(<<"loc">>, 1, 2)),
                             Expression("Literal", IntVal(1))>>),
     Relation(<<"follow">>, "mutual", <<>>),
     Relation(<<"follow">>, "inward", <<"_id">>),
     Discover(<<<<"a@x">>, <<"b@x">>>>)}

Nots(S) == {Predicate("Not", <<c>>) : c \in S}
Conjs(S) == {Predicate(op, cs) : op \in {"And", "Or"},
                                 cs \in UNION {[1..n -> S] : n \in 1..MaxChildren}}

\* predicates outside the supported set, which fail or panic
Unsupported ==
    {Predicate("", <<>>),
     Predicate("Between", <<Expression("KeyPath", <<"title">>),
                            Expression("Literal", IntVal(1))>>),
     Predicate("In", <<Expression("KeyPath", <<"title">>),
                       Expression("KeyPath", <<"title">>)>>),
     Predicate("Functional", <<Expression("Function", CountFunc(TRUE))>>),
     Relation(<<"follow">>, "sideways", <<>>)}

\* the predicates of a multi-operation session
SessionPredicates ==
    Functionals \cup CoreLeaves \cup Nots(CoreLeaves)
        \cup {Predicate("And", <<Relation(<<"follow">>, "mutual", <<>>),
                                 Relation(<<"follow">>, "outward", <<"_owner">>),
                                 Discover(<<<<"a@x">>, <<"b@x">>>>)>>),
              Predicate("Or", <<Relation(UserTable, "outward", <<"_id">>),
                                Relation(<<"follow">>, "outward", <<>>)>>)}
        \cup Nots({Predicate("Between", <<Expression("KeyPath", <<"title">>),
                                          Expression("Literal", IntVal(1))>>)})

\* the predicates compiled in a fresh session
Supported ==
    Comparisons \cup Ins \cup Functionals \cup Nots(CoreLeaves) \cup Conjs(CoreLeaves)
        \cup Nots(Conjs(CoreLeaves)) \cup Conjs(Nots(CoreLeaves))
CompilePredicates == Supported \cup Unsupported \cup Nots(Unsupported)

Users == {[ID |-> id, Roles |-> roles] :
            id \in {<<>>, <<"alice">>, <<"a", DQ, BS, NUL>>},
            roles \in {<<>>, <<<<"admin">>>>,
                       <<<<"admin">>, <<"r", DQ, "<", LF, FF, BSP, "'", QM>>>>}}
ACLLevels == {"read", "write"}

Schemas ==
    {<<>>,
     [k \in {<<"title">>} |-> FieldType("string", NoExpression)],
     [k \in {<<"title">>, <<"_transient__email">>} |-> FieldType("number", NoExpression)],
     [k \in {<<"_transient__email">>} |->
         FieldType("string", Expression("Function", UserDataFunc(<<"email">>)))]}

(***************************************************************************)
(* The session as a state machine                                          *)
(***************************************************************************)
NoResult == [kind |-> "none"]
F == Factory(joinedTables, extraColumns, issued)

\* newPredicateSqlizerFactory
InitSession ==
    /\ db \in [id : DatabaseIDs, userRecordType : {UserRecordType}]
    /\ primaryTable \in PrimaryTables
    /\ shortEscapes \in BOOLEAN
    /\ joinedTables = <<>>
    /\ extraColumns = <<>>
    /\ issued = <<>>
    /\ sqlizer = NilSqlizer
    /\ result = NoResult
    /\ nops = 0

Init ==
    /\ InitSession
    /\ call = [op |-> "new", input |-> NoResult]

Build(p) ==
    LET b == newPredicateSqlizer(F, primaryTable, db.userRecordType, p)
    IN  /\ joinedTables' = b.f.joinedTables
        /\ extraColumns' = b.f.extraColumns
        /\ issued' = b.f.issued
        /\ sqlizer' = b.sqlizer
        /\ result' = [kind |-> "built", err |-> b.err]
        /\ call' = [op |-> "newPredicateSqlizer", input |-> p]
        /\ nops' = nops + 1
        /\ UNCHANGED <<db, primaryTable, shortEscapes>>

NewPredicateSqlizer ==
    /\ nops < MaxOps
    /\ \E p \in SessionPredicates : Build(p)

NewAccessControlSqlizer ==
    /\ nops < MaxOps
    /\ \E user \in Users, aclLevel \in ACLLevels :
        /\ sqlizer' = newAccessControlSqlizer(db.id, user, aclLevel)
        /\ result' = [kind |-> "built", err |-> NoError]
        /\ call' = [op |-> "newAccessControlSqlizer", input |-> user]
    /\ nops' = nops + 1
    /\ UNCHANGED <<db, primaryTable, joinedTables, extraColumns, issued, shortEscapes>>

\* the sqlizer the last call returned is rendered
SqlizerToSql ==
    /\ sqlizer # NilSqlizer
    /\ call.op \in {"newPredicateSqlizer", "newAccessControlSqlizer", "query"}
    /\ result' = [kind |-> "sql"] @@ ToSql(sqlizer)
    /\ call' = [op |-> "ToSql", input |-> call.input]
    /\ UNCHANGED <<db, primaryTable, joinedTables, extraColumns, issued, sqlizer, nops,
                 shortEscapes>>

AddJoinsToSelectBuilder ==
    /\ nops < MaxOps
    /\ result' = [kind |-> "joins"] @@ addJoinsToSelectBuilder(F, primaryTable)
    /\ call' = [op |-> "addJoinsToSelectBuilder", input |-> NoResult]
    /\ sqlizer' = NilSqlizer
    /\ nops' = nops + 1
    /\ UNCHANGED <<db, primaryTable, joinedTables, extraColumns, issued, shortEscapes>>

UpdateTypemap ==
    /\ nops < MaxOps
    /\ \E tm \in Schemas :
        /\ result' = [kind |-> "typemap", typemap |-> updateTypemap(F, tm)]
        /\ call' = [op |-> "updateTypemap", input |-> tm]
    /\ sqlizer' = NilSqlizer
    /\ nops' = nops + 1
    /\ UNCHANGED <<db, primaryTable, joinedTables, extraColumns, issued, shortEscapes>>

Next ==
    \/ NewPredicateSqlizer
    \/ NewAccessControlSqlizer
    \/ SqlizerToSql
    \/ AddJoinsToSelectBuilder
    \/ UpdateTypemap

Spec == Init /\ [][Next]_vars

(***************************************************************************)
(* One query compiled in a fresh session: the predicate is drawn first,    *)
(* then turned into a sqlizer, then rendered.                              *)
(***************************************************************************)
InitCompile ==
    /\ InitSession
    /\ \E p \in CompilePredicates : call = [op |-> "query", input |-> p]

BuildQuery ==
    /\ call.op = "query"
    /\ nops = 0
    /\ Build(call.input)

NextCompile ==
    \/ BuildQuery
    \/ SqlizerToSql

SpecCompile == InitCompile /\ [][NextCompile]_vars

(***************************************************************************)
(* Properties                                                              *)
(***************************************************************************)
SpecOf(i) == issued[i][1]
AliasOf(i) == issued[i][2]

RECURSIVE FirstRequests(_, _)
\* the distinct JoinSpecs of a request history, in the order of first request
FirstRequests(iss, seen) ==
    IF iss = <<>> THEN seen
    ELSE IF \E i \in 1..Len(seen) : seen[i] = Head(iss)[1]
    THEN FirstRequests(Tail(iss), seen)
    ELSE FirstRequests(Tail(iss), Append(seen, Head(iss)[1]))

\* the alias the first request of a JoinSpec returned
FirstAlias(spec) ==
    AliasOf(CHOOSE i \in 1..Len(issued) :
                /\ SpecOf(i) = spec
                /\ \A j \in 1..Len(issued) : SpecOf(j) = spec => i <= j)

\* C1 as stated: any two JoinSpecs requested in one session that differ in at
\* least one field were given two distinct aliases.
C1_DistinctAliases ==
    \A i, j \in 1..Len(issued) : SpecOf(i) # SpecOf(j) => AliasOf(i) # AliasOf(j)

\* C1 (amended): two JoinSpecs requested in one session that differ in at
\* least one field were given two distinct aliases, unless both name the
\* `_user` table as their secondary table: those both get the alias `_user`.
C1_DistinctAliasesExceptUser ==
    \A i, j \in 1..Len(issued) :
        SpecOf(i) # SpecOf(j) =>
            IF SpecOf(i).secondaryTable = UserTable /\ SpecOf(j).secondaryTable = UserTable
            THEN AliasOf(i) = UserTable /\ AliasOf(j) = UserTable
            ELSE AliasOf(i) # AliasOf(j)

\* two different non-user JoinSpecs of the same table, with another request
\* between them and a repeated request before the second
C1_Witness ==
    \E i, k, j \in 1..Len(issued) :
        /\ i < k /\ k < j
        /\ SpecOf(i) # SpecOf(j)
        /\ SpecOf(i).secondaryTable = SpecOf(j).secondaryTable
        /\ SpecOf(i).secondaryTable # UserTable
        /\ SpecOf(k) = SpecOf(i)
        /\ AliasOf(i) # AliasOf(j)

\* C2: a JoinSpec equal to one already requested gets the alias its first
\* request got, and the join list is exactly the distinct requested JoinSpecs
\* in the order of first request: a repeated request appends nothing and
\* reorders nothing, and no two entries of the list are equal.
C2_EqualSpecsCollapse ==
    /\ \A i, j \in 1..Len(issued) : SpecOf(i) = SpecOf(j) => AliasOf(i) = AliasOf(j)
    /\ joinedTables = FirstRequests(issued, <<>>)
    /\ \A i, j \in 1..Len(joinedTables) :
            equal(joinedTables[i], joinedTables[j]) => i = j

\* a JoinSpec requested again after a different JoinSpec had been added
C2_Witness ==
    \E i, k, j \in 1..Len(issued) :
        /\ i < k /\ k < j
        /\ SpecOf(i) = SpecOf(j)
        /\ SpecOf(k) # SpecOf(i)
        /\ AliasOf(i) = AliasOf(j)
        /\ Len(joinedTables) < Len(issued)

\* C3 as stated: a Not predicate whose child renders without error to S with
\* arguments A renders to `NOT (S)` with the same arguments A.
C3_NotWrapsOnSuccess ==
    (call.op = "ToSql" /\ sqlizer.kind = "Not"
        /\ ToSql(sqlizer.Predicate).err = NoError)
    => /\ result.sql = <<"NOT (">> \o ToSql(sqlizer.Predicate).sql \o <<")">>
       /\ result.args = ToSql(sqlizer.Predicate).args
       /\ result.err = NoError

\* the LEFT JOIN clause of a JoinSpec under an alias
JoinClause(spec, alias) ==
    Flatten(<<"LEFT JOIN ">> \o tableName(spec.secondaryTable) \o <<" AS ">>
            \o QuoteIdentifier(alias) \o <<" ON ">>
            \o QuoteIdentifier(primaryTable) \o <<".">>
            \o QuoteIdentifier(spec.primaryColumn) \o <<" = ">>
            \o QuoteIdentifier(alias) \o <<".">>
            \o QuoteIdentifier(spec.secondaryColumn))

\* C4: addJoinsToSelectBuilder emits one LEFT JOIN clause per distinct
\* requested JoinSpec, in the order of first request, each under the alias
\* createLeftJoin returned for it, and asks for DISTINCT exactly when a join
\* was requested.
C4_RenderJoins ==
    call.op = "addJoinsToSelectBuilder" =>
        LET specs == FirstRequests(issued, <<>>)
        IN  /\ Len(result.joins) = Len(specs)
            /\ \A i \in 1..Len(specs) :
                  Flatten(result.joins[i]) = JoinClause(specs[i], FirstAlias(specs[i]))
            /\ result.distinct = (Len(issued) > 0)
            /\ (Len(issued) = 0 => result.joins = <<>> /\ ~result.distinct)

\* joins rendered after three distinct JoinSpecs, one of them requested twice
C4_Witness ==
    /\ call.op = "addJoinsToSelectBuilder"
    /\ Len(result.joins) = 3
    /\ Len(issued) > 3
    /\ result.distinct

\* C5 as stated: a tree of supported operators that the factory turned into
\* a sqlizer renders without error to a fragment with as many `?`
\* placeholders as bind arguments.  (squirrel numbers every `?` of the
\* fragment, whether the code wrote it for a bind value or copied it from an
\* identifier.)
C5_PlaceholdersMatchArgs ==
    (call.op = "ToSql" /\ sqlizer.kind # "access" /\ call.input \in Supported)
        => /\ result.err = NoError
           /\ CountPlaceholders(result.sql) = Len(result.args)

\* C6 as stated: with an empty database id the access-control fragment is
\* empty, whoever the user is.
C6_EmptyDatabaseIDNoRestriction ==
    (call.op = "ToSql" /\ sqlizer.kind = "access" /\ sqlizer.databaseID = <<>>)
        => result.sql = <<>>

\* the character a JSON escape stands for (e is the text after the
\* backslash), by the JSON grammar (RFC 8259, section 7)
Unescape(e) ==
    CASE e = DQ -> DQ
      [] e = BS -> BS
      [] e = "/" -> "/"
      [] e = "n" -> LF
      [] e = "r" -> CR
      [] e = "t" -> TAB
      [] e = "b" -> BSP
      [] e = "f" -> FF
      [] e = "u0000" -> NUL
      [] e = "u0009" -> TAB
      [] e = "u000a" -> LF
      [] e = "u000d" -> CR
      [] e = "u0022" -> DQ
      [] e = "u005c" -> BS
      [] e = "u003c" -> "<"
      [] e = "u003e" -> ">"
      [] e = "u0026" -> "&"
      [] e = "u2028" -> LS
      [] e = "u2029" -> PS
      [] e = "ufffd" -> "<U+FFFD>"
      [] \E n \in ControlCodes : e = "u00" \o Hex(n) ->
            ControlChunk(CHOOSE n \in ControlCodes : e = "u00" \o Hex(n))
      [] OTHER -> "<bad escape>"

\* a character JSON forbids unescaped inside a string
MustBeEscaped(c) ==
    c \in {DQ, BS, NUL, LF, CR, TAB} \cup {ControlChunk(n) : n \in ControlCodes}

RECURSIVE JsonStringValue(_)
\* the string the body of a JSON string literal (the text between its
\* quotes) denotes
JsonStringValue(body) ==
    IF body = <<>> THEN <<>>
    ELSE IF Head(body) = BS
    THEN IF Len(body) < 2 THEN <<"<bad escape>">>
         ELSE <<Unescape(body[2])>> \o JsonStringValue(Tail(Tail(body)))
    ELSE IF MustBeEscaped(Head(body))
    THEN <<"<unescaped>">> \o JsonStringValue(Tail(body))
    ELSE <<Head(body)>> \o JsonStringValue(Tail(body))

RECURSIVE ClosingQuote(_, _)
\* the position of the first unescaped quote of t at or after i, 0 if none
ClosingQuote(t, i) ==
    IF i > Len(t) THEN 0
    ELSE IF t[i] = BS THEN ClosingQuote(t, i + 2)
    ELSE IF t[i] = DQ THEN i
    ELSE ClosingQuote(t, i + 1)

Malformed == <<[key |-> "<malformed>", value |-> <<>>]>>

RECURSIVE ParseDisjuncts(_)
\* the disjuncts of the text between the opening parenthesis and the end of
\* an access-control fragment, read from left to right: each containment
\* disjunct `_access @> '[{"<key>":<JSON string>}]'` gives its key and the
\* string its JSON literal denotes; the fragment must end with
\* ` OR _access IS NULL OR _owner_id = ?)`
ParseDisjuncts(t) ==
    IF Len(t) < 8 THEN Malformed
    ELSE IF SubSeq(t, 1, 2) # <<"_access @> '[{", DQ>>
              \/ SubSeq(t, 4, 6) # <<DQ, ":", DQ>>
    THEN Malformed
    ELSE
    LET close == ClosingQuote(t, 7)
        d == [key |-> t[3], value |-> JsonStringValue(SubSeq(t, 7, close - 1))]
        rest == SubSeq(t, close + 2, Len(t))
    IN  IF close = 0 \/ close + 1 > Len(t) THEN Malformed
        ELSE IF t[close + 1] = "}]' OR "
        THEN <<d>> \o ParseDisjuncts(rest)
        ELSE IF t[close + 1] = "}]' OR _access IS NULL OR _owner_id = "
                    /\ rest = <<QM, ")">>
        THEN <<d, [key |-> "_access IS NULL", value |-> <<>>],
                  [key |-> "_owner_id = ?", value |-> <<>>]>>
        ELSE Malformed

\* the disjuncts the access-control fragment of a user must hold, in order
AccessDisjuncts(user) ==
    [i \in 1..Len(user.Roles) |-> [key |-> "role", value |-> user.Roles[i]]]
        \o <<[key |-> "user_id", value |-> user.ID],
             [key |-> "_access IS NULL", value |-> <<>>],
             [key |-> "_owner_id = ?", value |-> <<>>]>>

IsDiscover(p) ==
    /\ IsPredicate(p)
    /\ p.Operator = "Functional"
    /\ p.Children # <<>>
    /\ p.Children[1].Value.fn = "UserDiscoverFunc"

\* C8: turning a UserDiscoverFunc predicate into a sqlizer in a session whose
\* primary table is not the user record table fails and changes neither the
\* join list nor the extra columns; such a session never has extra columns.
C8_DiscoverOnOtherTableFails ==
    /\ [][(/\ call'.op = "newPredicateSqlizer"
           /\ IsDiscover(call'.input)
           /\ primaryTable # db.userRecordType)
          => /\ result'.err # NoError
             /\ sqlizer' = NilSqlizer
             /\ joinedTables' = joinedTables
             /\ extraColumns' = extraColumns
             /\ issued' = issued]_vars
    /\ [](primaryTable # db.userRecordType => extraColumns = <<>>)

\* a failed discover predicate in a session that already holds joins
C8_Witness ==
    /\ call.op = "newPredicateSqlizer"
    /\ IsDiscover(call.input)
    /\ primaryTable # db.userRecordType
    /\ result.err # NoError
    /\ joinedTables # <<>>
    /\ extraColumns = <<>>

\* C9 as stated: every column of the schema given to updateTypemap is in the
\* schema it returns, with the field type and expression it had.
C9_ExistingColumnsKept ==
    call.op = "updateTypemap" =>
        \A k \in DOMAIN call.input :
            /\ k \in DOMAIN result.typemap
            /\ result.typemap[k] = call.input[k]

IsRelation(p) ==
    /\ IsPredicate(p)
    /\ p.Operator = "Functional"
    /\ p.Children # <<>>
    /\ p.Children[1].Value.fn = "UserRelationFunc"

RelationPrimaryColumn(fn) ==
    IF fn.KeyPath \in {<<>>, <<"_owner">>} THEN <<"_owner_id">> ELSE fn.KeyPath

\* the join requests a UserRelationFunc is to issue, in order
RelationRequests(fn) ==
    LET outward == joinedTable(fn.RelationName, RelationPrimaryColumn(fn), <<"right_id">>)
        inward == joinedTable(fn.RelationName, RelationPrimaryColumn(fn), <<"left_id">>)
    IN  CASE fn.RelationDirection = "mutual" -> <<outward, inward>>
          [] fn.RelationDirection \in {"", "outward"} -> <<outward>>
          [] fn.RelationDirection = "inward" -> <<inward>>
          [] OTHER -> <<>>

\* C10: a UserRelationFunc predicate issues exactly the join requests of its
\* direction (mutual: outward then inward; outward or empty: outward;
\* inward: inward), keyed on `_owner_id` for an empty or `_owner` key path;
\* the mutual fragment compares the outward alias's left_id with the inward
\* alias's right_id and binds the target user id alone.
C10_RelationJoins ==
    /\ [][(call'.op = "newPredicateSqlizer" /\ IsRelation(call'.input))
          => LET reqs == RelationRequests(call'.input.Children[1].Value)
             IN  /\ Len(issued') = Len(issued) + Len(reqs)
                 /\ \A i \in 1..Len(reqs) : issued'[Len(issued) + i][1] = reqs[i]
                 /\ \A i \in 1..Len(issued) : issued'[i] = issued[i]]_vars
    /\ [](( /\ call.op = "ToSql"
            /\ IsRelation(call.input)
            /\ call.input.Children[1].Value.RelationDirection = "mutual")
          => LET n == Len(issued)
                 out == Flatten(QuoteIdentifier(AliasOf(n - 1))) \o ".\"left_id\""
                 in == Flatten(QuoteIdentifier(AliasOf(n))) \o ".\"right_id\""
             IN  /\ Flatten(result.sql) = out \o " = " \o in \o " AND " \o out \o " = ?"
                 /\ result.args = <<StrVal(call.input.Children[1].Value.User)>>
                 /\ result.err = NoError)

\* a mutual relation on the `_owner` key path rendered in a session that
\* already held another join
C10_Witness ==
    /\ call.op = "ToSql"
    /\ IsRelation(call.input)
    /\ call.input.Children[1].Value.RelationDirection = "mutual"
    /\ call.input.Children[1].Value.KeyPath = <<"_owner">>
    /\ Len(issued) >= 3
    /\ SpecOf(Len(issued)).primaryColumn = <<"_owner_id">>
    /\ AliasOf(Len(issued) - 1) # AliasOf(Len(issued))
    /\ Len(result.args) = 1

====
